---------------------------- MODULE Spec2Model ----------------------------
(***************************************************************************)
(* center-comment-headers: a directory walk that re-centres two kinds of   *)
(* banner comments in every .ts file below the working directory.          *)
(*                                                                         *)
(* Text is modelled as sequences of one-character strings; a file on disk  *)
(* is one such sequence with "\n" separators, exactly what readFileSync    *)
(* returns and writeFileSync receives.                                     *)
(***************************************************************************)
EXTENDS Integers, Sequences, FiniteSets, TLC

(***************************************************************************)
(* Bounds of the model                                                     *)
(***************************************************************************)
\* Number of extra border characters a long top border carries.
ExtraStars == 2
\* Most blanks between a dash run and the title of a pooled section header.
MaxPad == 1
\* Longest file (in lines) made of pooled banner lines.
MaxLines == 3
\* Number of direct calls of a pass in the single-file specification.
MaxCalls == 2
\* Longest dash run of a pooled section header.
MaxDash == 2

(***************************************************************************)
(* Text primitives (JavaScript String methods)                             *)
(***************************************************************************)
NL == "\n"
WhiteSpace == {" ", "\t"}
\* The characters texts are made of; Dot is what the pattern's . matches.
Alphabet == {" ", "\t", "/", "*", "-", "F", "o", NL}
Dot == Alphabet \ {NL}

\* String.prototype.repeat for a non-negative count.
Repeat(c, n) == [k \in 1..n |-> c]

\* String.prototype.startsWith
StartsWith(s, p) ==
  /\ Len(p) <= Len(s)
  /\ \A k \in 1..Len(p) : s[k] = p[k]

\* String.prototype.endsWith
EndsWith(s, p) ==
  /\ Len(p) <= Len(s)
  /\ \A k \in 1..Len(p) : s[Len(s) - Len(p) + k] = p[k]

\* String.prototype.trim
Trim(s) ==
  LET nonBlank == {k \in 1..Len(s) : s[k] \notin WhiteSpace}
  IN IF nonBlank = {} THEN <<>>
     ELSE LET first == CHOOSE k \in nonBlank :
                          \A j \in 1..(k - 1) : s[j] \in WhiteSpace
              last  == CHOOSE k \in nonBlank :
                          \A j \in (k + 1)..Len(s) : s[j] \in WhiteSpace
          IN SubSeq(s, first, last)

\* original.split('\n'): the pieces between consecutive newline characters;
\* a text without newline is one line, a trailing newline gives a last
\* empty line.
\* (The position of the next newline is bound as a value, so that it is
\* found once for each piece.)
RECURSIVE SplitFrom(_, _)
SplitFrom(s, from) ==
  IF \A k \in from..Len(s) : s[k] # NL THEN <<SubSeq(s, from, Len(s))>>
  ELSE CHOOSE pieces \in
         {<<SubSeq(s, from, nxt - 1)>> \o SplitFrom(s, nxt + 1) :
            nxt \in {CHOOSE k \in from..Len(s) :
                       /\ s[k] = NL
                       /\ \A j \in from..(k - 1) : s[j] # NL}} : TRUE

Split(s) == SplitFrom(s, 1)

\* lines.join('\n')
RECURSIVE Join(_)
Join(lines) ==
  IF Len(lines) = 0 THEN <<>>
  ELSE IF Len(lines) = 1 THEN lines[1]
  ELSE lines[1] \o <<NL>> \o Join(Tail(lines))

(***************************************************************************)
(* Constants of the script                                                 *)
(***************************************************************************)
BorderStars == 78
REGION_START == <<"/">> \o Repeat("*", BorderStars)
REGION_END == Repeat("*", BorderStars) \o <<"/">>
EXTENSION == <<".", "t", "s">>
NodeModules == <<"n", "o", "d", "e", "_", "m", "o", "d", "u", "l", "e", "s">>
DotGit == <<".", "g", "i", "t">>
EXCLUDE_DIRS == {NodeModules, DotGit}

(***************************************************************************)
(* centerRegionHeadersInFile: the scan over the triples                    *)
(***************************************************************************)
\* Faulty variant: the width is the fixed length of the border literal.
RegionWidthFixed(top) == Len(REGION_START)

\* The width a title is centred in: the length of the triple's top line.
RegionWidth(top) == Len(top)

\* Faulty variant: the half is rounded up, so odd leftover space goes left.
LeftPaddingCeil(width, title) == (width - Len(title) + 1) \div 2

\* Math.floor((width - title.length) / 2); negative when the title is
\* longer than the top line.
LeftPadding(width, title) == (width - Len(title)) \div 2

RightPadding(width, title) ==
  width - Len(title) - LeftPadding(width, title)

\* Faulty variant: a negative count is taken as zero.
RepeatThrowsNever(n) == FALSE

\* ' '.repeat(n) throws a RangeError for a negative count.
RepeatThrows(n) == n < 0

\* Faulty variant: the title is set flush left in the width.
CenteredLeft(width, title) ==
  title \o Repeat(" ", width - Len(title))

\* Faulty variant: the width is filled with spaces and the title is lost.
CenteredNoTitle(width, title) == Repeat(" ", width)

\* ' '.repeat(leftPadding) + title + ' '.repeat(rightPadding)
Centered(width, title) ==
  Repeat(" ", LeftPadding(width, title)) \o title
    \o Repeat(" ", RightPadding(width, title))

\* The triple test of the scan.
IsRegion(top, bottom) ==
  StartsWith(top, REGION_START) /\ StartsWith(bottom, REGION_END)

\* The state of a loop: the lines array, the changed flag, and whether a
\* RangeError has left the function.
Loop(lines, changed, threw) ==
  [lines |-> lines, changed |-> changed, threw |-> threw]

\* Faulty variant: the line is assigned whether or not it differs.
AssignAlways(lines, j, changed, old, centered) ==
  Loop([lines EXCEPT ![j] = centered], TRUE, FALSE)

\* if (centered !== old) { lines[j] = centered; changed = true; }
Assign(lines, j, changed, old, centered) ==
  IF centered # old
  THEN Loop([lines EXCEPT ![j] = centered], TRUE, FALSE)
  ELSE Loop(lines, changed, FALSE)

\* Faulty variant: a blank title line is centred like any other.
NoTitleNever(title) == FALSE

\* !title: the trimmed middle line is the empty string.
NoTitle(title) == title = <<>>

\* The body of the if for a recognised triple with top line i (1-based):
\* width, title and middle are the constants of these names.
CenterTitle(lines, i, changed, middle, width, title) ==
  IF NoTitle(title) THEN Loop(lines, changed, FALSE)
  ELSE IF \/ RepeatThrows(LeftPadding(width, title))
          \/ RepeatThrows(RightPadding(width, title))
  THEN Loop(lines, changed, TRUE)
  ELSE Assign(lines, i + 1, changed, middle, Centered(width, title))

\* One iteration of the for loop: the triple whose top is line i.
RegionIteration(lines, i, changed) ==
  IF IsRegion(lines[i], lines[i + 2])
  THEN CenterTitle(lines, i, changed, lines[i + 1],
                   RegionWidth(lines[i]), Trim(lines[i + 1]))
  ELSE Loop(lines, changed, FALSE)

\* The for loop from index i on, over the array it mutates in place; it ends
\* at the last triple or at a RangeError.  (The state s an iteration starts
\* from is bound as a value: it is computed once.)
RECURSIVE RegionLoop(_, _)
RegionLoop(st, i) ==
  CHOOSE out \in
    {IF s.threw \/ i > Len(s.lines) - 2 THEN s
     ELSE RegionLoop(RegionIteration(s.lines, i, s.changed), i + 1) :
       s \in {st}} : TRUE

(***************************************************************************)
(* SECTION_REGEX: blanks, two slashes, blanks; a dash run; the title      *)
(* between optional blanks; a dash run; blanks, two slashes, blanks.      *)
(***************************************************************************)
AllIn(s, from, to, chars) == \A k \in from..to : s[k] \in chars

\* Run lengths n >= least of characters of chars starting at position from.
Runs(s, from, least, chars) ==
  {n \in least..(Len(s) - from + 1) : AllIn(s, from, from + n - 1, chars)}

IsSlashes(s, at) ==
  /\ at + 1 <= Len(s)
  /\ s[at] = "/"
  /\ s[at + 1] = "/"

\* Every way the pattern matches the whole line, as the lengths of its
\* eight quantified parts in pattern order:
\* leading blanks, blanks after the slashes, left dashes, blanks, title,
\* blanks, right dashes, blanks before the closing slashes (the trailing
\* blanks are the rest of the line).
SectionSplits(s) ==
  UNION { UNION { UNION { UNION { UNION { UNION { UNION {
    { <<n1, n2, a, b, t, c, d, n3>> :
        n3 \in { n \in Runs(s, n1 + 2 + n2 + a + b + t + c + d + 1, 1, WhiteSpace) :
                 LET at == n1 + 2 + n2 + a + b + t + c + d + n + 1
                 IN /\ IsSlashes(s, at)
                    /\ AllIn(s, at + 2, Len(s), WhiteSpace) } }
    : d \in Runs(s, n1 + 2 + n2 + a + b + t + c + 1, 1, {"-"}) }
    : c \in Runs(s, n1 + 2 + n2 + a + b + t + 1, 0, WhiteSpace) }
    : t \in Runs(s, n1 + 2 + n2 + a + b + 1, 1, Dot) }
    : b \in Runs(s, n1 + 2 + n2 + a + 1, 0, WhiteSpace) }
    : a \in Runs(s, n1 + 2 + n2 + 1, 1, {"-"}) }
    : n2 \in Runs(s, n1 + 3, 1, WhiteSpace) }
    : n1 \in {n \in Runs(s, 1, 0, WhiteSpace) : IsSlashes(s, n + 1)} }

\* Backtracking order: a greedy quantifier tries its longest run first, the
\* lazy title its shortest; an earlier quantifier is retried only after every
\* choice of the later ones failed.
Lazy == {5}

RECURSIVE TriedBefore(_, _, _)
TriedBefore(x, y, k) ==
  IF k > Len(x) THEN FALSE
  ELSE IF x[k] = y[k] THEN TriedBefore(x, y, k + 1)
  ELSE IF k \in Lazy THEN x[k] < y[k]
  ELSE x[k] > y[k]

NoMatch == <<>>

\* The split the engine reaches first.
FirstTried(splits) ==
  CHOOSE x \in splits : \A y \in splits : x = y \/ TriedBefore(x, y, 1)

\* The five capture groups of split m of line s.
Groups(s, m) ==
  LET p == m[1] + 2 + m[2]
      q == p + m[3] + m[4]
      r == q + m[5] + m[6]
  IN [prefix      |-> SubSeq(s, 1, p),
      leftDashes  |-> SubSeq(s, p + 1, p + m[3]),
      title       |-> SubSeq(s, q + 1, q + m[5]),
      rightDashes |-> SubSeq(s, r + 1, r + m[7]),
      suffix      |-> SubSeq(s, r + m[7] + 1, Len(s))]

\* (The set of splits and the split reached first are bound as values: each
\* is computed once for a line.)
Captures(s, splits) ==
  CHOOSE caps \in
    UNION {IF all = {} THEN {NoMatch}
           ELSE {Groups(s, m) : m \in {FirstTried(all)}} :
             all \in {splits}} : TRUE

\* line.match(SECTION_REGEX): the captures of the first split the engine
\* reaches, or NoMatch (null).
SectionMatch(s) == Captures(s, SectionSplits(s))

\* Faulty variant: the two blanks around the title are not counted.
TotalWidthBare(m) ==
  Len(m.prefix) + Len(m.leftDashes) + Len(m.title)
    + Len(m.rightDashes) + Len(m.suffix)

\* prefix.length + leftDashes.length + 2 + title.length
\*   + rightDashes.length + suffix.length
TotalWidth(m) ==
  Len(m.prefix) + Len(m.leftDashes) + 2 + Len(m.title)
    + Len(m.rightDashes) + Len(m.suffix)

DashSpace(m) ==
  TotalWidth(m) - Len(m.prefix) - Len(m.suffix) - Len(m.title) - 2

\* Faulty variant: a single dash on the left, the rest on the right.
LeftDashCountOne(m) == 1

\* Math.floor(dashSpace / 2)
LeftDashCount(m) == DashSpace(m) \div 2

\* Faulty variant: as many dashes on the right as on the left.
RightDashCountSame(m) == LeftDashCount(m)

\* dashSpace - leftDashCount
RightDashCount(m) == DashSpace(m) - LeftDashCount(m)

SectionCentered(m) ==
  m.prefix \o Repeat("-", LeftDashCount(m)) \o <<" ">> \o m.title
    \o <<" ">> \o Repeat("-", RightDashCount(m)) \o m.suffix

\* Faulty variant: a line that does not match is emptied.
RebalanceAll(lines, i, changed, line, match) ==
  IF match = NoMatch THEN Assign(lines, i, changed, line, <<>>)
  ELSE Assign(lines, i, changed, line, SectionCentered(match))

\* The body of the for loop for line i (1-based) once matched.
Rebalance(lines, i, changed, line, match) ==
  IF match = NoMatch THEN Loop(lines, changed, FALSE)
  ELSE Assign(lines, i, changed, line, SectionCentered(match))

\* One iteration of the for loop of centerSectionHeadersInFile.
SectionIteration(lines, i, changed) ==
  CHOOSE out \in
    {Rebalance(lines, i, changed, lines[i], match) :
       match \in {SectionMatch(lines[i])}} : TRUE

RECURSIVE SectionLoop(_, _)
SectionLoop(st, i) ==
  CHOOSE out \in
    {IF i > Len(s.lines) THEN s
     ELSE SectionLoop(SectionIteration(s.lines, i, s.changed), i + 1) :
       s \in {st}} : TRUE

(***************************************************************************)
(* The two passes as functions of the text they read                       *)
(***************************************************************************)
\* What a pass computes between its read and its write: the lines after the
\* loop joined again, the changed flag, and whether the loop threw.
Outcome(st) ==
  CHOOSE out \in
    {[result |-> Join(s.lines), changed |-> s.changed, threw |-> s.threw] :
       s \in {st}} : TRUE

RegionRun(original) ==
  Outcome(RegionLoop(Loop(Split(original), FALSE, FALSE), 1))

SectionRun(original) ==
  Outcome(SectionLoop(Loop(Split(original), FALSE, FALSE), 1))

\* Faulty variant: the second call of the walker is the region pass again.
PassRunRegionOnly(fn, original) == RegionRun(original)

\* The pass the walker calls first ("region") or second ("section").
PassRun(fn, original) ==
  IF fn = "region" THEN RegionRun(original) ELSE SectionRun(original)

\* Faulty variant: the file is written back whether or not a line changed.
ShouldWriteAlways(changed) == TRUE

\* if (changed) { writeFileSync; console.log }
ShouldWrite(changed) == changed

\* Faulty variant: nothing is printed.
ConsoleLogNothing(out, filePath) == out

\* console.log(`Updated: ${filePath}`): one more line on standard output.
ConsoleLog(out, filePath) == Append(out, filePath)

(***************************************************************************)
(* The directory tree the walk runs on                                     *)
(***************************************************************************)
\* Shape: the working directory 0 lists <<1, 2, 3>>; directory 1 lists
\* <<4, 5>>; directory 4 lists <<6>>.  2, 5 and 6 are regular files, 3 is a
\* regular file or something else (a symbolic link, a socket).
Root == 0
Nodes == 0..6
DirNodes == {0, 1, 4}
Children(d) ==
  IF d = 0 THEN <<1, 2, 3>>
  ELSE IF d = 1 THEN <<4, 5>>
  ELSE IF d = 4 THEN <<6>>
  ELSE <<>>
Parent(n) == CHOOSE d \in DirNodes : \E k \in 1..Len(Children(d)) : Children(d)[k] = n

NameProj == <<"p">>
NameSrc == <<"s">>
NameLib == <<"l">>
NameA == <<"a", ".", "t", "s">>
NameTsx == <<"a", ".", "t", "s", "o">>
NameNoDot == <<"a", "t", "s">>
NameB == <<"b", ".", "t", "s">>
NameC == <<"c", ".", "t", "s">>
NameLink == <<"k", ".", "t", "s">>

(***************************************************************************)
(* UserModel.ts: values, the constants and the validators                  *)
(***************************************************************************)
\* JavaScript values: primitives and Date objects carry a number and a
\* string, an object literal carries its own properties.
Num(n) == [type |-> "number", num |-> n, str |-> ""]
Str(s) == [type |-> "string", num |-> 0, str |-> s]
Undefined == [type |-> "undefined", num |-> 0, str |-> ""]
Null == [type |-> "null", num |-> 0, str |-> ""]
\* A Date object whose time value is t, and one whose time value is NaN.
DateOf(t) == [type |-> "date", num |-> t, str |-> ""]
InvalidDate == [type |-> "date", num |-> 0, str |-> "NaN"]
Obj(props) == [type |-> "object", num |-> 0, str |-> "", props |-> props]

\* typeof value
TypeOf(value) ==
  IF value.type \in {"object", "date", "null"} THEN "object" ELSE value.type

\* name in arg: an own property of an object literal; a Date has none of the
\* names asked for.
In(name, arg) == arg.type = "object" /\ name \in DOMAIN arg.props

\* The comparison of Array.prototype.includes: primitives by type and value,
\* objects by identity; an object just built is identical to no other value.
SameValueZero(a, b) ==
  /\ a.type = b.type
  /\ a.type \in {"number", "string", "undefined", "null"}
  /\ a.num = b.num
  /\ a.str = b.str

INVALID_USER_ERROR == "Not a valid user object"

UserRoles == [NONE |-> Num(0), BASIC |-> Num(1), ADMIN |-> Num(2)]

\* The instants a clock or a date string can denote, and their ISO strings.
MaxTime == 2
Times == 1..MaxTime
IsoA == "2020-01-01T00:00:00.000Z"
IsoB == "2020-01-02T00:00:00.000Z"
DateOnlyA == "2020-01-01"

\* date.toISOString()
ToISOString(date) == IF date.num = 1 THEN IsoA ELSE IsoB

\* new Date(string): the date-only form denotes midnight UTC of that day;
\* a string that is no date gives a Date whose time is NaN.
NewDate(string) ==
  IF string \in {IsoA, DateOnlyA} THEN DateOf(1)
  ELSE IF string = IsoB THEN DateOf(2)
  ELSE InvalidDate

\* Number.isNaN(date.getTime())
IsNaNTime(date) == date.str = "NaN"

\* GetDefaults(), called at instant now.
GetDefaults(now) ==
  [id |-> Num(0), name |-> Str(""), role |-> UserRoles.NONE,
   created |-> DateOf(now)]

\* Object.values(obj)
ObjectValues(obj) == {obj[k] : k \in DOMAIN obj}

\* Object.values(obj).includes(value)
isValueOf(value, obj) ==
  \E v \in ObjectValues(obj) : SameValueZero(v, value)

isValidDateOrISOString(value) ==
  IF value.type = "date" THEN ~IsNaNTime(value)
  ELSE IF TypeOf(value) = "string"
  THEN /\ ~IsNaNTime(NewDate(value.str))
       /\ ToISOString(NewDate(value.str)) = value.str
  ELSE FALSE

\* isUser(arg): the role and the date tests are given arg itself.
isUser(arg) ==
  /\ TypeOf(arg) = "object"
  /\ arg.type # "null"
  /\ In("id", arg) /\ TypeOf(arg.props["id"]) = "number"
  /\ In("name", arg) /\ TypeOf(arg.props["name"]) = "string"
  /\ In("role", arg) /\ isValueOf(arg, UserRoles)
  /\ In("created", arg) /\ isValidDateOrISOString(arg)

\* { ...defaults, ...partial }: the own properties of partial, those holding
\* undefined included, replace the defaults; undefined spreads to nothing.
Spread(defaults, partial) ==
  IF partial.type # "object" THEN Obj(defaults)
  ELSE Obj([f \in DOMAIN defaults \cup DOMAIN partial.props |->
              IF f \in DOMAIN partial.props THEN partial.props[f]
              ELSE defaults[f]])

\* No call of getNewUser was made.
Pending == [kind |-> "pending", newUser |-> Undefined, message |-> ""]

\* getNewUser(partial) called at instant now: the local newUser, and whether
\* it is returned or the Error is thrown.
getNewUser(partial, now) ==
  IF ~isUser(Spread(GetDefaults(now), partial))
  THEN [kind |-> "thrown", newUser |-> Spread(GetDefaults(now), partial),
        message |-> INVALID_USER_ERROR]
  ELSE [kind |-> "returned", newUser |-> Spread(GetDefaults(now), partial),
        message |-> ""]

VARIABLES
  partial, \* the argument getNewUser is called with
  ret,     \* how that call ended: Pending, or [kind, newUser, message]
  tree,    \* node -> [name, kind]: what readdirSync reports for it
  disk,    \* file node -> the text stored in the file
  stack,   \* the active walk() calls: [dir, node, idx] with idx the entry at hand
  pc,      \* "start", "entry", "section", "done", "crashed", or "direct"
  io,      \* the file-system calls made so far, in order: [op, path, ok]
  stdout,  \* the paths printed as 'Updated: <path>', in order
  calls    \* one record per call of a pass, in order

vars == <<partial, ret, tree, disk, stack, pc, io, stdout, calls>>

\* path.join(dir, entry.name)
PathJoin(dir, name) == dir \o <<"/">> \o name

\* process.cwd(): the working directory sits directly below "/".
Cwd == <<"/">> \o tree[Root].name

\* Faulty variant: only the first entry of a directory is listed.
EntriesFirst(d) ==
  [k \in 1..1 |->
     [name |-> tree[Children(d)[k]].name,
      kind |-> tree[Children(d)[k]].kind,
      node |-> Children(d)[k]]]

\* fs.readdirSync(dir, { withFileTypes: true }) for directory node d.
Entries(d) ==
  [k \in 1..Len(Children(d)) |->
     [name |-> tree[Children(d)[k]].name,
      kind |-> tree[Children(d)[k]].kind,
      node |-> Children(d)[k]]]

\* Faulty variant: no directory is excluded.
ExcludedNever(entryName) == FALSE

\* EXCLUDE_DIRS.has(entry.name)
Excluded(entryName) == entryName \in EXCLUDE_DIRS

\* Faulty variant: the extension is not looked at.
IsTargetAnyFile(entry, fullPath) == entry.kind = "file"

\* entry.isFile() && fullPath.endsWith(EXTENSION)
IsTarget(entry, fullPath) ==
  entry.kind = "file" /\ EndsWith(fullPath, EXTENSION)

Event(op, path, ok) == [op |-> op, path |-> path, ok |-> ok]

CallRecord(fn, filePath, original, r, wrote, outcome) ==
  [fn |-> fn, path |-> filePath, original |-> original, result |-> r.result,
   changed |-> r.changed, wrote |-> wrote, outcome |-> outcome]

\* The effects of a call that read original and computed r.
PassEffect(fn, f, filePath, fail, original, r) ==
  IF r.threw \/ ~ShouldWrite(r.changed)
  THEN /\ fail = "none"
       /\ io' = Append(io, Event("read", filePath, TRUE))
       /\ calls' = Append(calls,
            CallRecord(fn, filePath, original, r, FALSE,
                       IF r.threw THEN "rangeerror" ELSE "returned"))
       /\ UNCHANGED <<disk, stdout>>
  ELSE IF fail = "write"
  THEN /\ io' = io \o <<Event("read", filePath, TRUE),
                        Event("write", filePath, FALSE)>>
       /\ calls' = Append(calls,
            CallRecord(fn, filePath, original, r, FALSE, "ioerror"))
       /\ UNCHANGED <<disk, stdout>>
  ELSE /\ fail = "none"
       /\ io' = io \o <<Event("read", filePath, TRUE),
                        Event("write", filePath, TRUE)>>
       /\ disk' = [disk EXCEPT ![f] = r.result]
       /\ stdout' = ConsoleLog(stdout, filePath)
       /\ calls' = Append(calls,
            CallRecord(fn, filePath, original, r, TRUE, "returned"))

\* One call fn(filePath) on file node f.  fail names the file-system call
\* that throws, if any.  Leaves the walk's own state alone.
CallPass(fn, f, filePath, fail) ==
  IF fail = "read"
  THEN /\ io' = Append(io, Event("read", filePath, FALSE))
       /\ calls' = Append(calls,
            [fn |-> fn, path |-> filePath, original |-> <<>>,
             result |-> <<>>, changed |-> FALSE, wrote |-> FALSE,
             outcome |-> "ioerror"])
       /\ UNCHANGED <<disk, stdout>>
  ELSE \E original \in {disk[f]} :
         \E r \in {PassRun(fn, original)} :
           PassEffect(fn, f, filePath, fail, original, r)

\* Faulty variant: a failure is swallowed and the call returns.
ReturnsAlways(fn, f, fail) == TRUE

\* Whether that call returns to its caller.
Returns(fn, f, fail) == fail = "none" /\ ~PassRun(fn, disk[f]).threw

(***************************************************************************)
(* The walk                                                                *)
(***************************************************************************)
Top == stack[Len(stack)]
AtEntry ==
  /\ stack # <<>>
  /\ Top.idx <= Len(Entries(Top.node))
Entry == Entries(Top.node)[Top.idx]
FullPath == PathJoin(Top.dir, Entry.name)
Advance == [stack EXCEPT ![Len(stack)].idx = @ + 1]

\* walk(process.cwd()): the first readdirSync.
Start ==
  /\ pc = "start"
  /\ \E ok \in BOOLEAN :
       /\ io' = Append(io, Event("readdir", Cwd, ok))
       /\ IF ok
          THEN /\ stack' = <<[dir |-> Cwd, node |-> Root, idx |-> 1]>>
               /\ pc' = "entry"
          ELSE /\ pc' = "crashed"
               /\ UNCHANGED stack
  /\ UNCHANGED <<tree, disk, stdout, calls, partial, ret>>

\* A directory entry that is not excluded: walk(fullPath) begins.
EnterDir ==
  /\ pc = "entry"
  /\ AtEntry
  /\ Entry.kind = "dir"
  /\ ~Excluded(Entry.name)
  /\ \E ok \in BOOLEAN :
       /\ io' = Append(io, Event("readdir", FullPath, ok))
       /\ IF ok
          THEN /\ stack' = Append(stack,
                    [dir |-> FullPath, node |-> Entry.node, idx |-> 1])
               /\ pc' = "entry"
          ELSE /\ pc' = "crashed"
               /\ UNCHANGED stack
  /\ UNCHANGED <<tree, disk, stdout, calls, partial, ret>>

\* A directory entry named in EXCLUDE_DIRS: nothing happens.
SkipExcluded ==
  /\ pc = "entry"
  /\ AtEntry
  /\ Entry.kind = "dir"
  /\ Excluded(Entry.name)
  /\ stack' = Advance
  /\ UNCHANGED <<tree, disk, pc, io, stdout, calls, partial, ret>>

\* An entry that is neither a directory nor a file with the extension.
SkipOther ==
  /\ pc = "entry"
  /\ AtEntry
  /\ Entry.kind # "dir"
  /\ ~IsTarget(Entry, FullPath)
  /\ stack' = Advance
  /\ UNCHANGED <<tree, disk, pc, io, stdout, calls, partial, ret>>

\* centerRegionHeadersInFile(fullPath) for a matching file.
RegionStep ==
  /\ pc = "entry"
  /\ AtEntry
  /\ Entry.kind # "dir"
  /\ IsTarget(Entry, FullPath)
  /\ \E fail \in {"none", "read", "write"} :
       /\ CallPass("region", Entry.node, FullPath, fail)
       /\ pc' = IF Returns("region", Entry.node, fail)
                THEN "section" ELSE "crashed"
  /\ UNCHANGED <<tree, stack, partial, ret>>

\* centerSectionHeadersInFile(fullPath), then on to the next entry.
SectionStep ==
  /\ pc = "section"
  /\ \E fail \in {"none", "read", "write"} :
       /\ CallPass("section", Entry.node, FullPath, fail)
       /\ IF Returns("section", Entry.node, fail)
          THEN /\ pc' = "entry"
               /\ stack' = Advance
          ELSE /\ pc' = "crashed"
               /\ UNCHANGED stack
  /\ UNCHANGED <<tree, partial, ret>>

\* The for loop of a walk() call is exhausted: back to the caller's loop, or
\* the script ends.
Return ==
  /\ pc = "entry"
  /\ stack # <<>>
  /\ ~AtEntry
  /\ IF Len(stack) = 1
     THEN /\ stack' = <<>>
          /\ pc' = "done"
     ELSE /\ stack' = [SubSeq(stack, 1, Len(stack) - 1)
                         EXCEPT ![Len(stack) - 1].idx = @ + 1]
          /\ pc' = "entry"
  /\ UNCHANGED <<tree, disk, io, stdout, calls, partial, ret>>

(***************************************************************************)
(* Texts the files hold initially                                          *)
(***************************************************************************)
Pad(n) == Repeat(" ", n)
Foo == <<"F", "o", "o">>
LongTop == REGION_START \o Repeat("*", ExtraStars)
Blank == <<"\t">>

\* Lines a banner is made of: borders as long as the literal and longer,
\* and borders and a title with a blank in front.
RegionPool ==
  {REGION_START, LongTop, REGION_END}
    \cup {Pad(1) \o b : b \in {LongTop, REGION_END, Foo}}

SlashesBlank == <<"/", "/", " ">>

SectionLine(open, a, g1, t, g2, b) ==
  open \o Repeat("-", a) \o Pad(g1) \o t \o Pad(g2) \o Repeat("-", b)
    \o <<" ", "/", "/">>

\* Section headers with dash runs up to MaxDash, up to MaxPad blanks on each
\* side of the title, and a title of one letter or none.
SectionPool ==
  {SectionLine(SlashesBlank, a, g1, t, g2, b) :
     a \in 1..MaxDash, g1 \in 0..MaxPad, t \in {<<>>, <<"F">>},
     g2 \in 0..MaxPad, b \in 1..MaxDash}

\* Section headers with one blank on each side of the title.
SpacedPool ==
  {SectionLine(SlashesBlank, a, 1, <<"F">>, 1, b) :
     a \in 1..MaxDash, b \in 1..MaxDash}

\* No blank after the opening slashes: not a section header.
NoBlankOpen == SectionLine(<<"/", "/">>, 2, 1, <<"F">>, 1, 1)

Unbalanced == SectionLine(SlashesBlank, 2, 1, <<"F">>, 1, 1)

\* A banner and a section header, both off centre.
BothOff == <<REGION_START, <<" ">> \o Foo, REGION_END, <<>>, Unbalanced, <<>>>>
\* A banner whose title is itself a section header.
HeaderAsTitle == <<LongTop, <<"\t">> \o Unbalanced, REGION_END>>
\* A banner whose title is longer than its top border.
TitleTooLong == <<REGION_START, LongTop, REGION_END>>
RegionOff == <<REGION_START, Foo, REGION_END, <<>>>>
\* A banner whose title line holds only white space.
BlankTitle == <<REGION_START, Blank, REGION_END>>
\* A banner off centre, followed by a banner whose title is too long.
OffThenTooLong ==
  <<LongTop, <<" ">> \o Foo, REGION_END, REGION_START, LongTop, REGION_END>>
SectionOff == <<Unbalanced>>
Plain == <<Foo>>
\* A banner whose title line is the empty string.
EmptyTitle == <<REGION_START, <<>>, REGION_END>>
\* A banner with a blank title line, then a banner off centre.
BlankThenOff ==
  <<REGION_START, Blank, REGION_END, REGION_START, Foo, REGION_END>>
\* A banner whose title leaves an odd number of columns free.
OddLeftover == <<REGION_START, <<"F", "o">>, REGION_END>>

\* Four lines, two triples: centring the second triple's title turns it
\* into the bottom border of the first, which the scan has passed.
CascadeBack == <<LongTop, REGION_START, Pad(1) \o REGION_END, REGION_END>>
\* Centring the first triple's title turns it into the top border of the
\* second.
CascadeForward == <<LongTop, Pad(1) \o LongTop, REGION_END, REGION_END>>
\* The title of the first triple is the top border of the second, and the
\* title of the second is the bottom border of the first.
Overlapping == <<LongTop, LongTop, REGION_END, REGION_END>>

\* Borders of 80 stars: two more than the literals have.
WideTop == REGION_START \o <<"*", "*">>
WideBottom == <<"*", "*">> \o REGION_END

\* A banner holding 'Foo' between a and b blanks.
FooBanner(top, a, b, bottom) == <<top, Pad(a) \o Foo \o Pad(b), bottom>>

FooBanners ==
  {FooBanner(REGION_START, a, b, REGION_END) : a \in 0..MaxPad, b \in 0..MaxPad}
    \cup {FooBanner(WideTop, a, b, WideBottom) :
             a \in 0..MaxPad, b \in 0..MaxPad}

\* Section headers around a word of several characters, with runs of one and
\* four dashes, and around words that hold a dash.
WordPool ==
  {SectionLine(SlashesBlank, a, 1, Foo, 1, b) : a \in {1, 4}, b \in {1, 4}}
    \cup {SectionLine(SlashesBlank, a, 1, w, 1, b) :
             a \in 1..MaxDash, b \in 1..MaxDash,
             w \in {<<"-">>, <<"F", "-">>, <<"-", "F">>}}

SeqsUpTo(S, n) == UNION {[1..k -> S] : k \in 1..n}

SingleFileTexts ==
  {Join(f) : f \in SeqsUpTo(RegionPool, MaxLines)}
    \cup {Join(<<l>>) : l \in SectionPool}
    \cup {Join(<<l1, l2>>) : l1 \in SpacedPool, l2 \in SpacedPool}
    \cup {Join(BothOff), Join(HeaderAsTitle), Join(RegionOff),
          Join(BlankTitle), Join(OffThenTooLong), Join(<<NoBlankOpen>>)}
    \cup {Join(EmptyTitle), Join(BlankThenOff), Join(OddLeftover)}
    \cup {Join(CascadeBack), Join(CascadeForward), Join(Overlapping)}
    \cup {Join(f) : f \in FooBanners}
    \cup {Join(<<l>>) : l \in WordPool}

TreeTexts ==
  {Join(BothOff), Join(TitleTooLong), Join(RegionOff), Join(SectionOff),
   Join(Plain)}

(***************************************************************************)
(* Specification of one run of the script over the tree                    *)
(***************************************************************************)
\* The trees the walk is run on: a working directory holding a directory, a
\* file and a third entry, with a directory and a file one level down and a
\* file two levels down; names and kinds vary.
InitTree ==
  \E rootName \in {NameProj, NodeModules},
     n1 \in {NameSrc, NodeModules, DotGit},
     n4 \in {NameLib, NodeModules},
     n2 \in {NameA, NameTsx, NameNoDot},
     k3 \in {"file", "other"} :
    tree = [n \in Nodes |->
              IF n = 0 THEN [name |-> rootName, kind |-> "dir"]
              ELSE IF n = 1 THEN [name |-> n1, kind |-> "dir"]
              ELSE IF n = 2 THEN [name |-> n2, kind |-> "file"]
              ELSE IF n = 3 THEN [name |-> NameLink, kind |-> k3]
              ELSE IF n = 4 THEN [name |-> n4, kind |-> "dir"]
              ELSE IF n = 5 THEN [name |-> NameB, kind |-> "file"]
              ELSE [name |-> NameC, kind |-> "file"]]

\* The script has not started.
InitIdle ==
  /\ partial = Undefined
  /\ ret = Pending
  /\ stack = <<>>
  /\ pc = "start"
  /\ io = <<>>
  /\ stdout = <<>>
  /\ calls = <<>>

Init ==
  /\ InitTree
  /\ \E t2 \in TreeTexts, t5 \in TreeTexts,
        t6 \in {Join(BothOff), Join(Plain), Join(OffThenTooLong)} :
       disk = [n \in {2, 3, 5, 6} |->
                 IF n = 2 THEN t2
                 ELSE IF n = 3 THEN Join(RegionOff)
                 ELSE IF n = 5 THEN t5
                 ELSE t6]
  /\ InitIdle

Next ==
  \/ Start
  \/ EnterDir
  \/ SkipExcluded
  \/ SkipOther
  \/ RegionStep
  \/ SectionStep
  \/ Return

Spec == Init /\ [][Next]_vars

\* The runs whose progress is followed to their end: every tree of Init, with
\* files that are rewritten, files that are left alone and a file whose title
\* makes the region pass throw.
InitFair ==
  /\ Init
  /\ disk[2] \in {Join(BothOff), Join(TitleTooLong)}
  /\ disk[5] \in {Join(Plain), Join(SectionOff)}
  /\ disk[6] = Join(BothOff)

\* The script is one synchronous computation: while a step is possible the
\* next one is taken.
FairSpec == InitFair /\ [][Next]_vars /\ WF_vars(Next)

(***************************************************************************)
(* Specification of the script run twice over the same tree                *)
(***************************************************************************)
MaxRuns == 2

\* How many times the script was started: each start lists the working
\* directory once.
RunsStarted ==
  Cardinality({k \in 1..Len(io) : io[k].op = "readdir" /\ io[k].path = Cwd})

\* A section header with no title: two dashes, a blank and one dash.
DashesOnly == SectionLine(SlashesBlank, 2, 1, <<>>, 0, 1)

\* Files a first run leaves centred, and files it leaves for a second run.
InitTwice ==
  /\ InitTree
  /\ \E t2 \in {Join(BothOff), Join(CascadeBack)},
        t5 \in {Join(Plain), Join(<<DashesOnly>>)} :
       disk = [n \in {2, 3, 5, 6} |->
                 IF n = 2 THEN t2
                 ELSE IF n = 5 THEN t5
                 ELSE Join(RegionOff)]
  /\ InitIdle

\* The script is started again once walk(process.cwd()) has returned.
Rerun ==
  /\ pc = "done"
  /\ RunsStarted < MaxRuns
  /\ pc' = "start"
  /\ UNCHANGED <<tree, disk, stack, io, stdout, calls, partial, ret>>

NextTwice ==
  \/ Next
  \/ Rerun

SpecTwice == InitTwice /\ [][NextTwice]_vars

(***************************************************************************)
(* Specification of direct calls of the passes on a single file            *)
(***************************************************************************)
TheFile == 2
ThePath == PathJoin(Cwd, tree[TheFile].name)

InitPass ==
  /\ tree = [n \in Nodes |->
               IF n \in DirNodes THEN [name |-> NameProj, kind |-> "dir"]
               ELSE [name |-> NameA, kind |-> "file"]]
  /\ \E text \in SingleFileTexts : disk = [n \in {TheFile} |-> text]
  /\ partial = Undefined
  /\ ret = Pending
  /\ stack = <<>>
  /\ pc = "direct"
  /\ io = <<>>
  /\ stdout = <<>>
  /\ calls = <<>>

\* A caller invokes centerRegionHeadersInFile on the file.
CallRegion ==
  /\ pc = "direct"
  /\ Len(calls) < MaxCalls
  /\ CallPass("region", TheFile, ThePath, "none")
  /\ pc' = IF Returns("region", TheFile, "none") THEN "direct" ELSE "crashed"
  /\ UNCHANGED <<tree, stack, partial, ret>>

\* A caller invokes centerSectionHeadersInFile on the file.
CallSection ==
  /\ pc = "direct"
  /\ Len(calls) < MaxCalls
  /\ CallPass("section", TheFile, ThePath, "none")
  /\ pc' = IF Returns("section", TheFile, "none") THEN "direct" ELSE "crashed"
  /\ UNCHANGED <<tree, stack, partial, ret>>

NextPass == CallRegion \/ CallSection

SpecPass == InitPass /\ [][NextPass]_vars

(***************************************************************************)
(* Specification of calls of getNewUser                                    *)
(***************************************************************************)
FieldNames == {"id", "name", "role", "created"}

\* A field a caller leaves out of the partial.
Absent == [type |-> "absent", num |-> 0, str |-> ""]

Ids == {Num(0), Num(7), Str("7"), Undefined}
UserNames == {Str(""), Str("x"), Num(1)}
Roles == {Num(0), Num(2), Num(3), Str("ADMIN")}
Dates == {DateOf(1), InvalidDate, Str(IsoB), Str(DateOnlyA), Num(5)}

\* The object literal with the fields that are not left out.
Literal(fields) ==
  Obj([f \in {g \in FieldNames : fields[g] # Absent} |-> fields[f]])

\* The arguments: none, or a partial with any of the four fields.
Partials ==
  {Undefined} \cup
    {Literal([id |-> i, name |-> n, role |-> r, created |-> c]) :
       i \in Ids \cup {Absent}, n \in UserNames \cup {Absent},
       r \in Roles \cup {Absent}, c \in Dates \cup {Absent}}

InitUser ==
  /\ partial \in Partials
  /\ ret = Pending
  /\ tree = [n \in Nodes |-> [name |-> NameProj, kind |-> "dir"]]
  /\ disk = <<>>
  /\ stack = <<>>
  /\ pc = "user"
  /\ io = <<>>
  /\ stdout = <<>>
  /\ calls = <<>>

\* User.new(partial), at some instant.
GetNewUser ==
  /\ pc = "user"
  /\ ret = Pending
  /\ \E now \in Times : ret' = getNewUser(partial, now)
  /\ UNCHANGED <<partial, tree, disk, stack, pc, io, stdout, calls>>

NextUser == GetNewUser

SpecUser == InitUser /\ [][NextUser]_vars

(***************************************************************************)
(* Vocabulary of the properties                                            *)
(***************************************************************************)
Returned(c) == c.outcome = "returned"

\* The text on disk when call c is over.
DiskAfter(c) == IF c.wrote THEN c.result ELSE c.original

\* The text holds a triple with a non-empty title.
HasBanner(text) ==
  LET lines == Split(text)
  IN \E i \in 1..(Len(lines) - 2) :
       /\ IsRegion(lines[i], lines[i + 2])
       /\ Trim(lines[i + 1]) # <<>>

\* The text holds a line of the section pattern.
HasSection(text) ==
  LET lines == Split(text)
  IN \E i \in 1..Len(lines) : SectionMatch(lines[i]) # NoMatch

\* Calls k and k + 1 are two runs in succession of pass fn, the first of
\* which returned.
Twice(fn, k) ==
  /\ k + 1 <= Len(calls)
  /\ calls[k].fn = fn
  /\ calls[k + 1].fn = fn
  /\ Returned(calls[k])

SecondRunIdle(k) ==
  /\ Returned(calls[k + 1])
  /\ ~calls[k + 1].wrote
  /\ DiskAfter(calls[k + 1]) = DiskAfter(calls[k])

\* C1: when the region pass runs twice in succession on a file that holds a
\* banner with a non-empty title, the second run writes nothing and leaves
\* the file as the first run left it.
C1_RegionPassIdempotent ==
  \A k \in 1..Len(calls) :
    Twice("region", k) /\ HasBanner(calls[k].original) => SecondRunIdle(k)

\* C2: when the section pass runs twice in succession on a file that holds a
\* line of the section pattern, the second run writes nothing and leaves the
\* file as the first run left it.
C2_SectionPassIdempotent ==
  \A k \in 1..Len(calls) :
    Twice("section", k) /\ HasSection(calls[k].original) => SecondRunIdle(k)

\* C3: the section pass gives every line that matches the section pattern a
\* line of the same length.
C3_SectionKeepsLineLength ==
  \A k \in 1..Len(calls) :
    calls[k].fn = "section" /\ Returned(calls[k]) =>
      LET before == Split(calls[k].original)
          after  == Split(calls[k].result)
      IN \A i \in 1..Len(before) :
           SectionMatch(before[i]) # NoMatch =>
             Len(after[i]) = Len(before[i])

\* Line i is the top of a triple the region scan recognised, with a non-empty
\* title: the scan sees line i as the pass leaves it and lines i + 1 and
\* i + 2 as they were read.
ScannedTriple(before, after, i) ==
  /\ i + 2 <= Len(before)
  /\ IsRegion(after[i], before[i + 2])
  /\ Trim(before[i + 1]) # <<>>

\* C4: after the region pass the title line of every recognised triple with
\* a non-empty title is exactly as long as the triple's top line.
C4_RegionTitleAsWideAsTop ==
  \A k \in 1..Len(calls) :
    calls[k].fn = "region" /\ Returned(calls[k]) =>
      LET before == Split(calls[k].original)
          after  == Split(calls[k].result)
      IN \A i \in 1..Len(before) :
           ScannedTriple(before, after, i) =>
             Len(after[i + 1]) = Len(after[i])

\* A region pass rewrote a title below a top line longer than REGION_START.
C4_Witness ==
  \E k \in 1..Len(calls) :
    /\ calls[k].fn = "region"
    /\ Returned(calls[k])
    /\ LET before == Split(calls[k].original)
           after  == Split(calls[k].result)
       IN \E i \in 1..Len(before) :
            /\ ScannedTriple(before, after, i)
            /\ after[i + 1] # before[i + 1]
            /\ Len(after[i]) > Len(REGION_START)

\* Line j of the text read is a top or bottom border of a triple.
IsBorder(before, j) ==
  \E i \in 1..(Len(before) - 2) :
    /\ IsRegion(before[i], before[i + 2])
    /\ j \in {i, i + 2}

\* Line j of the text read is the title line of a triple.
IsTitleLine(before, j) ==
  /\ j >= 2
  /\ j + 1 <= Len(before)
  /\ IsRegion(before[j - 1], before[j + 1])

\* What is left of a line without its blanks and dashes.
NotFiller(c) == c \notin WhiteSpace \cup {"-"}
Letters(s) == SelectSeq(s, NotFiller)

\* C5: a pass keeps the title text, keeps the length of every border line,
\* and leaves every line that is neither a title line nor a section header
\* as it was.
C5_ContentPreserving ==
  \A k \in 1..Len(calls) :
    Returned(calls[k]) =>
      LET before == Split(calls[k].original)
          after  == Split(calls[k].result)
      IN /\ Len(after) = Len(before)
         /\ \A j \in 1..Len(before) :
              /\ IsBorder(before, j) => Len(after[j]) = Len(before[j])
              /\ calls[k].fn = "region" /\ IsTitleLine(before, j) =>
                   Trim(after[j]) = Trim(before[j])
              /\ calls[k].fn = "section" /\ SectionMatch(before[j]) # NoMatch =>
                   Letters(after[j]) = Letters(before[j])
              /\ calls[k].fn = "region" /\ ~IsTitleLine(before, j) =>
                   after[j] = before[j]
              /\ calls[k].fn = "section" /\ SectionMatch(before[j]) = NoMatch =>
                   after[j] = before[j]

\* C6: a line of the text read that is neither the middle line of a triple
\* nor a line of the section pattern is the same after either pass.
C6_OtherLinesUntouched ==
  \A k \in 1..Len(calls) :
    Returned(calls[k]) =>
      LET before == Split(calls[k].original)
          after  == Split(calls[k].result)
      IN \A j \in 1..Len(before) :
           ~IsTitleLine(before, j) /\ SectionMatch(before[j]) = NoMatch =>
             after[j] = before[j]

Writes(path) ==
  Cardinality({k \in 1..Len(io) :
                 io[k].op = "write" /\ io[k].ok /\ io[k].path = path})
Reports(path) ==
  Cardinality({k \in 1..Len(stdout) : stdout[k] = path})
Modifying(path) ==
  Cardinality({k \in 1..Len(calls) : calls[k].path = path /\ calls[k].wrote})
PathsSeen ==
  {io[k].path : k \in 1..Len(io)} \cup {stdout[k] : k \in 1..Len(stdout)}
    \cup {calls[k].path : k \in 1..Len(calls)}

\* C7: a pass writes and reports the file exactly when the lines it ends
\* with differ from the text it read; otherwise it neither writes nor
\* reports.
C7_WriteIffChanged ==
  /\ \A k \in 1..Len(calls) :
       calls[k].wrote <=>
         Returned(calls[k]) /\ calls[k].result # calls[k].original
  /\ \A path \in PathsSeen :
       /\ Writes(path) = Modifying(path)
       /\ Reports(path) = Modifying(path)

\* One pass wrote the file and a later one returned without writing.
C7_Witness ==
  \E k \in 1..Len(calls) :
    /\ k + 1 <= Len(calls)
    /\ calls[k].wrote
    /\ Returned(calls[k + 1])
    /\ ~calls[k + 1].wrote
    /\ Writes(calls[k].path) = 1

\* path.join applied down from the working directory to node n.
RECURSIVE PathOf(_)
PathOf(n) ==
  IF n = Root THEN Cwd ELSE PathJoin(PathOf(Parent(n)), tree[n].name)

\* The directories node n lies in, the working directory included.
RECURSIVE Ancestors(_)
Ancestors(n) ==
  IF n = Root THEN {} ELSE {Parent(n)} \cup Ancestors(Parent(n))

FileNodes == Nodes \ DirNodes

\* Node n was neither read, written nor reported.
Untouched(n) == PathOf(n) \notin PathsSeen

\* C8 as stated: a file modified by either pass, or by both, gets exactly one
\* 'Updated' line, a file modified by neither gets none.
C8_SingleReportPerFile ==
  \A n \in FileNodes :
    Reports(PathOf(n)) = IF Writes(PathOf(n)) > 0 THEN 1 ELSE 0

\* C8 amended: every pass that modifies a file prints one 'Updated' line for
\* it, so a file has as many lines as passes that wrote it (at most two in a
\* run) and a file no pass wrote has none.
C8_ReportPerModifyingPass ==
  \A n \in FileNodes :
    /\ Reports(PathOf(n)) = Writes(PathOf(n))
    /\ Reports(PathOf(n)) = Modifying(PathOf(n))
    /\ Reports(PathOf(n)) <= 2

\* Both passes modified one file, which is reported twice.
C8_Witness ==
  \E n \in FileNodes :
    /\ Writes(PathOf(n)) = 2
    /\ Reports(PathOf(n)) = 2

\* C9 as stated: a file with a directory named node_modules or .git anywhere
\* above it is never read, written or reported.
C9_NothingInsideExcludedNames ==
  \A n \in FileNodes :
    (\E d \in Ancestors(n) : tree[d].name \in EXCLUDE_DIRS) => Untouched(n)

\* C9 amended: a file with a directory named node_modules or .git above it
\* and below the working directory is never read, written or reported; the
\* name of the working directory itself is not looked at.
C9_NothingBelowExcludedEntry ==
  \A n \in FileNodes :
    (\E d \in Ancestors(n) \ {Root} : tree[d].name \in EXCLUDE_DIRS) =>
      Untouched(n)

\* The walk is over, it went into directory 1 and passed over the excluded
\* directory 4 with the .ts file 6 in it.
C9_Witness ==
  /\ pc = "done"
  /\ tree[4].name \in EXCLUDE_DIRS
  /\ tree[1].name \notin EXCLUDE_DIRS
  /\ ~Untouched(5)
  /\ Untouched(6)

HasExtension(n) == tree[n].kind = "file" /\ EndsWith(tree[n].name, EXTENSION)

\* C10: every call of a pass is for a regular file whose name ends with
\* '.ts', and no other file is read, written or reported.
C10_OnlyTargetExtension ==
  /\ \A k \in 1..Len(calls) :
       \E n \in FileNodes : HasExtension(n) /\ PathOf(n) = calls[k].path
  /\ \A n \in FileNodes : ~HasExtension(n) => Untouched(n)

\* The walk is over, it passed by a file without the extension and an entry
\* named k.ts that is not a regular file, and ran both passes on a .ts file.
C10_Witness ==
  /\ pc = "done"
  /\ tree[2].name = NameTsx
  /\ tree[3].kind = "other"
  /\ Untouched(2)
  /\ Untouched(3)
  /\ \E k \in 1..Len(calls) : calls[k].fn = "section"

\* Line i of the text read is the top of a candidate triple whose middle
\* line is empty or holds only white space.
BlankCandidate(before, i) ==
  /\ i + 2 <= Len(before)
  /\ IsRegion(before[i], before[i + 2])
  /\ Trim(before[i + 1]) = <<>>

\* C11: the region pass leaves the three lines of a candidate triple with an
\* empty or blank middle line as they were, and a file whose candidate
\* triples all have such a middle line is not written.
C11_BlankTitleUntouched ==
  \A k \in 1..Len(calls) :
    calls[k].fn = "region" =>
      LET before == Split(calls[k].original)
          after  == Split(calls[k].result)
      IN /\ \A i \in 1..Len(before) :
              BlankCandidate(before, i) =>
                \A j \in {i, i + 1, i + 2} : after[j] = before[j]
         /\ ~HasBanner(calls[k].original) =>
              /\ ~calls[k].wrote
              /\ calls[k].result = calls[k].original

\* A region pass returned from a file with a blank-titled triple without
\* writing it.
C11_Witness ==
  \E k \in 1..Len(calls) :
    /\ calls[k].fn = "region"
    /\ Returned(calls[k])
    /\ ~calls[k].wrote
    /\ \E i \in 1..Len(Split(calls[k].original)) :
         /\ BlankCandidate(Split(calls[k].original), i)
         /\ Split(calls[k].original)[i + 1] # <<>>

\* The line holds 'Foo' and otherwise only spaces.
OnlyFoo(line) ==
  /\ Trim(line) = Foo
  /\ \A k \in 1..Len(line) : line[k] \in {" ", "F", "o"}

\* Lines i, i + 1, i + 2 of the text read are top, 'Foo' among spaces, bottom.
FooTriple(before, i, top, bottom) ==
  /\ i + 2 <= Len(before)
  /\ before[i] = top
  /\ OnlyFoo(before[i + 1])
  /\ before[i + 2] = bottom

\* C12 as stated: between a top border of '/' and 80 stars and the matching
\* bottom border of 80 stars and '/', the region pass rewrites a line holding
\* only 'Foo' to floor((80 - 3) / 2) spaces, 'Foo', and the spaces that fill
\* width 80.
C12_EightyStarBanner ==
  \A k \in 1..Len(calls) :
    calls[k].fn = "region" /\ Returned(calls[k]) =>
      LET before == Split(calls[k].original)
          after  == Split(calls[k].result)
      IN \A i \in 1..Len(before) :
           FooTriple(before, i, WideTop, WideBottom) =>
             after[i + 1] = Pad((80 - 3) \div 2) \o Foo
                              \o Pad(80 - 3 - ((80 - 3) \div 2))

\* C12 amended: between the border literals ('/' and 78 stars, 79 characters,
\* and 78 stars and '/') the region pass rewrites a line holding only 'Foo'
\* to floor((79 - 3) / 2) = 38 spaces, 'Foo' and 38 spaces, 79 characters in
\* all; between borders of 80 stars the line stays as it was.
C12_LiteralBanner ==
  \A k \in 1..Len(calls) :
    calls[k].fn = "region" /\ Returned(calls[k]) =>
      LET before == Split(calls[k].original)
          after  == Split(calls[k].result)
      IN \A i \in 1..Len(before) :
           /\ FooTriple(before, i, REGION_START, REGION_END) =>
                /\ after[i + 1] = Pad((79 - 3) \div 2) \o Foo
                                    \o Pad(79 - 3 - ((79 - 3) \div 2))
                /\ Len(after[i + 1]) = 79
           /\ FooTriple(before, i, WideTop, WideBottom) =>
                after[i + 1] = before[i + 1]

\* A region pass rewrote 'Foo' with a space on each side between the border
\* literals.
C12_Witness ==
  \E k \in 1..Len(calls) :
    /\ calls[k].fn = "region"
    /\ Returned(calls[k])
    /\ calls[k].wrote
    /\ Split(calls[k].original) = FooBanner(REGION_START, 1, 1, REGION_END)

\* A word: at least one character, none of them white space.
IsWord(w) == w # <<>> /\ \A k \in 1..Len(w) : w[k] \notin WhiteSpace

\* '// ', a dashes, a space, the word, a space, b dashes, ' //'
WordHeader(a, word, b) == SectionLine(SlashesBlank, a, 1, word, 1, b)

\* The word of a line read as a header with a dashes left and b right.
WordOf(line, a, b) == SubSeq(line, a + 5, Len(line) - b - 4)

IsWordHeader(line, a, b) ==
  /\ Len(line) >= a + b + 9
  /\ IsWord(WordOf(line, a, b))
  /\ line = WordHeader(a, WordOf(line, a, b), b)

\* The line is that word between l and r dashes, l and r at most one apart,
\* with one space on each side of the word.
BalancedAround(line, word, l, r) ==
  /\ line = WordHeader(l, word, r)
  /\ l - r \in {-1, 0, 1}

\* C13: the section pass turns a line '// ', a dashes, ' ', word, ' ',
\* b dashes, ' //' with a, b >= 1 into a line of the same length with the
\* same word between single spaces and dash runs that differ by at most one.
C13_WordHeaderBalanced ==
  \A k \in 1..Len(calls) :
    calls[k].fn = "section" /\ Returned(calls[k]) =>
      LET before == Split(calls[k].original)
          after  == Split(calls[k].result)
      IN \A i \in 1..Len(before) :
           StartsWith(before[i], SlashesBlank) =>
             \A a \in 1..Len(before[i]), b \in 1..Len(before[i]) :
               IsWordHeader(before[i], a, b) =>
                 /\ Len(after[i]) = Len(before[i])
                 /\ \E l \in 1..(a + b - 1) :
                      BalancedAround(after[i], WordOf(before[i], a, b),
                                     l, a + b - l)

\* A section pass rewrote '// ---- Foo - //'.
C13_Witness ==
  \E k \in 1..Len(calls) :
    /\ calls[k].fn = "section"
    /\ Returned(calls[k])
    /\ calls[k].wrote
    /\ Split(calls[k].original) = <<WordHeader(4, Foo, 1)>>

\* The last call that wrote the file at node n.
LastWrite(n) ==
  LET W == {k \in 1..Len(calls) : calls[k].path = PathOf(n) /\ calls[k].wrote}
  IN CHOOSE k \in W : \A j \in W : j <= k

\* C14: a failed directory listing, file read or file write is the last
\* file-system call of the run, the run is over with it, and every file
\* written before it holds what was last written to it.
C14_FailureStopsRun ==
  /\ \A k \in 1..Len(io) : ~io[k].ok => k = Len(io)
  /\ (io # <<>> /\ ~io[Len(io)].ok) => pc = "crashed" /\ ~ENABLED Next
  /\ \A n \in FileNodes :
       Writes(PathOf(n)) > 0 => disk[n] = calls[LastWrite(n)].result

\* A write failed after file c.ts was rewritten and before the working
\* directory's own .ts file was looked at.
C14_Witness ==
  /\ pc = "crashed"
  /\ io[Len(io)].op = "write"
  /\ ~io[Len(io)].ok
  /\ Writes(PathOf(6)) > 0
  /\ HasExtension(2)
  /\ Untouched(2)

\* Calls k and k + 1 are one run of the tool on the file: the region pass,
\* then the section pass, both returned.
OneRun(k) ==
  /\ k + 1 <= Len(calls)
  /\ calls[k].fn = "region"
  /\ calls[k + 1].fn = "section"
  /\ Returned(calls[k])
  /\ Returned(calls[k + 1])

\* The title line is its text centred in the width of the top line, the odd
\* column on the right.
CentredIn(top, titleLine) ==
  /\ Len(Trim(titleLine)) <= Len(top)
  /\ titleLine =
       Pad((Len(top) - Len(Trim(titleLine))) \div 2) \o Trim(titleLine)
         \o Pad(Len(top) - Len(Trim(titleLine))
                  - (Len(top) - Len(Trim(titleLine))) \div 2)

DashRunsBalanced(m) ==
  Len(m.leftDashes) - Len(m.rightDashes) \in {-1, 0, 1}

\* C15: after one run on a file every triple in it with a non-empty title
\* has the title centred in the width of its top line, and every line of the
\* section pattern has dash runs that differ by at most one.
C15_CentredAfterOneRun ==
  \A k \in 1..Len(calls) :
    OneRun(k) =>
      LET final == Split(DiskAfter(calls[k + 1]))
      IN /\ \A i \in 1..(Len(final) - 2) :
              IsRegion(final[i], final[i + 2]) /\ Trim(final[i + 1]) # <<>> =>
                CentredIn(final[i], final[i + 1])
         /\ \A i \in 1..Len(final) :
              SectionMatch(final[i]) # NoMatch =>
                DashRunsBalanced(SectionMatch(final[i]))

\* C16: for a recognised triple with title t no longer than the width w of
\* its top line, the region pass makes the middle line floor((w - len t) / 2)
\* spaces, t, and the rest of the w - len t spaces, which are as many or one
\* more.
C16_PaddingSplit ==
  \A k \in 1..Len(calls) :
    calls[k].fn = "region" /\ Returned(calls[k]) =>
      LET before == Split(calls[k].original)
          after  == Split(calls[k].result)
      IN \A i \in 1..Len(before) :
           ScannedTriple(before, after, i) =>
             LET w  == Len(after[i])
                 t  == Trim(before[i + 1])
                 lp == (w - Len(t)) \div 2
                 rp == w - Len(t) - lp
             IN Len(t) <= w =>
                  /\ after[i + 1] = Pad(lp) \o t \o Pad(rp)
                  /\ rp - lp \in {0, 1}

\* A region pass rewrote a title that leaves an odd number of columns free.
C16_Witness ==
  \E k \in 1..Len(calls) :
    /\ calls[k].fn = "region"
    /\ Returned(calls[k])
    /\ LET before == Split(calls[k].original)
           after  == Split(calls[k].result)
       IN \E i \in 1..Len(before) :
            /\ ScannedTriple(before, after, i)
            /\ after[i + 1] # before[i + 1]
            /\ (Len(after[i]) - Len(Trim(before[i + 1]))) % 2 = 1

\* out is the line rebuilt from match m with d dashes in all.
RebuiltFrom(m, d, out) ==
  /\ out = m.prefix \o Repeat("-", d \div 2) \o <<" ">> \o m.title \o <<" ">>
             \o Repeat("-", d - d \div 2) \o m.suffix
  /\ d \div 2 >= 1
  /\ (d - d \div 2) - d \div 2 \in {0, 1}

MatchedDashes(m) == Len(m.leftDashes) + Len(m.rightDashes)

\* C17: the section pass turns a line matched as prefix, leftDashes, title,
\* rightDashes, suffix into prefix, L dashes, a space, title, a space,
\* R dashes, suffix with L = floor(d / 2), R = d - L and d the number of
\* dashes matched; L >= 1 and R - L is 0 or 1.
C17_SectionRebuilt ==
  \A k \in 1..Len(calls) :
    calls[k].fn = "section" /\ Returned(calls[k]) =>
      LET before == Split(calls[k].original)
          after  == Split(calls[k].result)
      IN \A i \in 1..Len(before) :
           SectionMatch(before[i]) # NoMatch =>
             RebuiltFrom(SectionMatch(before[i]),
                         MatchedDashes(SectionMatch(before[i])), after[i])

\* A section pass rewrote a header with an odd number of dashes.
C17_Witness ==
  \E k \in 1..Len(calls) :
    /\ calls[k].fn = "section"
    /\ Returned(calls[k])
    /\ calls[k].wrote
    /\ LET before == Split(calls[k].original)
       IN \E i \in 1..Len(before) :
            /\ SectionMatch(before[i]) # NoMatch
            /\ MatchedDashes(SectionMatch(before[i])) % 2 = 1
            /\ Split(calls[k].result)[i] # before[i]

\* The read of call c succeeded.
ReadOk(c) == ~(c.outcome = "ioerror" /\ ~c.changed)

\* The file-system calls call c made, in order.
CallEvents(c) ==
  IF ~ReadOk(c) THEN <<Event("read", c.path, FALSE)>>
  ELSE <<Event("read", c.path, TRUE)>>
         \o (IF c.wrote THEN <<Event("write", c.path, TRUE)>>
             ELSE IF c.outcome = "ioerror"
             THEN <<Event("write", c.path, FALSE)>>
             ELSE <<>>)

RECURSIVE EventsOf(_)
EventsOf(cs) ==
  IF cs = <<>> THEN <<>> ELSE CallEvents(Head(cs)) \o EventsOf(Tail(cs))

IsFileEvent(e) == e.op # "readdir"

\* C18: the reads and writes of the run are those of its calls, one call
\* after the other; a section pass comes right after the region pass of the
\* same file has returned and reads what that pass left; a region pass comes
\* right after the section pass of another file has returned; and once both
\* have returned the file holds Section(Region(original)).
C18_RegionThenSection ==
  /\ SelectSeq(io, IsFileEvent) = EventsOf(calls)
  /\ pc = "section" => calls # <<>> /\ calls[Len(calls)].fn = "region"
  /\ \A k \in 1..Len(calls) :
       /\ calls[k].fn = "region" /\ k > 1 =>
            /\ calls[k - 1].fn = "section"
            /\ Returned(calls[k - 1])
       /\ calls[k].fn = "region" =>
            \A j \in 1..(k - 1) : calls[j].path # calls[k].path
       /\ calls[k].fn = "section" =>
            /\ k > 1
            /\ calls[k - 1].fn = "region"
            /\ calls[k - 1].path = calls[k].path
            /\ Returned(calls[k - 1])
            /\ ReadOk(calls[k]) => calls[k].original = DiskAfter(calls[k - 1])
            /\ Returned(calls[k]) =>
                 \E n \in FileNodes :
                   /\ PathOf(n) = calls[k].path
                   /\ disk[n] =
                        SectionRun(RegionRun(calls[k - 1].original).result).result

\* The run is over and both passes rewrote one file.
C18_Witness ==
  /\ pc = "done"
  /\ \E k \in 2..Len(calls) :
       /\ calls[k].fn = "section"
       /\ calls[k].wrote
       /\ calls[k - 1].wrote

\* Every triple of the text read centred on its own.
Independent(before) ==
  [j \in 1..Len(before) |->
     IF IsTitleLine(before, j) /\ Trim(before[j]) # <<>>
     THEN Pad((Len(before[j - 1]) - Len(Trim(before[j]))) \div 2)
            \o Trim(before[j])
            \o Pad(Len(before[j - 1]) - Len(Trim(before[j]))
                     - (Len(before[j - 1]) - Len(Trim(before[j]))) \div 2)
     ELSE before[j]]

\* No title of a triple of the text read is longer than its top line.
NoneTooLong(before) ==
  \A j \in 1..Len(before) :
    IsTitleLine(before, j) => Len(Trim(before[j])) <= Len(before[j - 1])

\* C19: the region pass's result is the text read with every triple of it
\* recognised on the lines as read and each title centred on its own.
C19_TriplesIndependent ==
  \A k \in 1..Len(calls) :
    /\ calls[k].fn = "region"
    /\ Returned(calls[k])
    /\ NoneTooLong(Split(calls[k].original))
    => Split(calls[k].result) = Independent(Split(calls[k].original))

\* The captured title: not empty, no white space at either end.
TrimmedTitle(m) ==
  /\ m.title # <<>>
  /\ m.title[1] \notin WhiteSpace
  /\ m.title[Len(m.title)] \notin WhiteSpace

\* C20: the title captured from a line of the section pattern is never empty
\* and neither starts nor ends with white space.
C20_TitleIsTrimmed ==
  \A k \in 1..Len(calls) :
    calls[k].fn = "section" =>
      LET before == Split(calls[k].original)
      IN \A i \in 1..Len(before) :
           SectionMatch(before[i]) # NoMatch =>
             TrimmedTitle(SectionMatch(before[i]))

\* C21: the region pass leaves the title line of a recognised triple as it
\* was when that line is already its title centred in the width of the top
\* line, and a file whose triples are all so centred is not written.
C21_CentredTitleKept ==
  \A k \in 1..Len(calls) :
    calls[k].fn = "region" /\ Returned(calls[k]) =>
      LET before == Split(calls[k].original)
          after  == Split(calls[k].result)
      IN /\ \A i \in 1..Len(before) :
              /\ ScannedTriple(before, after, i)
              /\ CentredIn(after[i], before[i + 1])
              => after[i + 1] = before[i + 1]
         /\ (\A i \in 1..(Len(before) - 2) :
               IsRegion(before[i], before[i + 2])
                 /\ Trim(before[i + 1]) # <<>> =>
                   CentredIn(before[i], before[i + 1]))
            => /\ ~calls[k].wrote
               /\ calls[k].result = calls[k].original

\* A region pass returned without writing a file that holds a banner whose
\* title is centred behind at least one space.
C21_Witness ==
  \E k \in 1..Len(calls) :
    /\ calls[k].fn = "region"
    /\ Returned(calls[k])
    /\ ~calls[k].wrote
    /\ LET before == Split(calls[k].original)
       IN \E i \in 1..(Len(before) - 2) :
            /\ IsRegion(before[i], before[i + 2])
            /\ Trim(before[i + 1]) # <<>>
            /\ CentredIn(before[i], before[i + 1])
            /\ before[i + 1][1] = " "

\* The line is its own captures with the dashes split floor and rest and one
\* space on each side of the title.
BalancedAsMatched(line, m, d) ==
  line = m.prefix \o Repeat("-", d \div 2) \o <<" ">> \o m.title \o <<" ">>
           \o Repeat("-", d - d \div 2) \o m.suffix

\* The line is '// ', floor(d / 2) dashes, a space, a word, a space, the
\* other dashes, ' //'.
BalancedWordHeader(line) ==
  /\ StartsWith(line, SlashesBlank)
  /\ \E a \in 1..Len(line), b \in 1..Len(line) :
       /\ IsWordHeader(line, a, b)
       /\ a = (a + b) \div 2

Balanced(line) ==
  \/ BalancedWordHeader(line)
  \/ /\ SectionMatch(line) # NoMatch
     /\ BalancedAsMatched(line, SectionMatch(line),
                          MatchedDashes(SectionMatch(line)))

\* C22: the section pass leaves a line with balanced dash runs and one space
\* on each side of the title as it was, and a file whose lines of the
\* section pattern are all so balanced is not written.
C22_BalancedLineKept ==
  \A k \in 1..Len(calls) :
    calls[k].fn = "section" /\ Returned(calls[k]) =>
      LET before == Split(calls[k].original)
          after  == Split(calls[k].result)
      IN /\ \A i \in 1..Len(before) :
              Balanced(before[i]) => after[i] = before[i]
         /\ (\A i \in 1..Len(before) :
               SectionMatch(before[i]) # NoMatch => Balanced(before[i]))
            => /\ ~calls[k].wrote
               /\ calls[k].result = calls[k].original

\* A section pass returned without writing a file that holds a balanced
\* header with an odd number of dashes.
C22_Witness ==
  \E k \in 1..Len(calls) :
    /\ calls[k].fn = "section"
    /\ Returned(calls[k])
    /\ ~calls[k].wrote
    /\ LET before == Split(calls[k].original)
       IN \E i \in 1..Len(before) :
            /\ BalancedWordHeader(before[i])
            /\ MatchedDashes(SectionMatch(before[i])) % 2 = 1

\* C26: the region pass keeps the number of lines, and every line it leaves
\* is, without its leading and trailing white space, the line it read
\* without its own.
C26_RegionKeepsTrimmedText ==
  \A k \in 1..Len(calls) :
    calls[k].fn = "region" /\ Returned(calls[k]) =>
      LET before == Split(calls[k].original)
          after  == Split(DiskAfter(calls[k]))
      IN /\ Len(after) = Len(before)
         /\ \A j \in 1..Len(before) : Trim(after[j]) = Trim(before[j])

\* A region pass rewrote two lines of a file.
C26_Witness ==
  \E k \in 1..Len(calls) :
    /\ calls[k].fn = "region"
    /\ calls[k].wrote
    /\ LET before == Split(calls[k].original)
           after  == Split(DiskAfter(calls[k]))
       IN \E i \in 1..Len(before), j \in 1..Len(before) :
            /\ i # j
            /\ after[i] # before[i]
            /\ after[j] # before[j]

IsBorderLine(line) ==
  StartsWith(line, REGION_START) \/ StartsWith(line, REGION_END)

\* C27: a line that begins with REGION_START or REGION_END does not match
\* the section pattern and is the same after the section pass.
C27_SectionKeepsBorders ==
  \A k \in 1..Len(calls) :
    calls[k].fn = "section" /\ Returned(calls[k]) =>
      LET before == Split(calls[k].original)
          after  == Split(DiskAfter(calls[k]))
      IN \A j \in 1..Len(before) :
           IsBorderLine(before[j]) =>
             /\ SectionMatch(before[j]) = NoMatch
             /\ after[j] = before[j]

\* A section pass rewrote a file that holds border lines.
C27_Witness ==
  \E k \in 1..Len(calls) :
    /\ calls[k].fn = "section"
    /\ calls[k].wrote
    /\ LET before == Split(calls[k].original)
       IN \E i \in 1..Len(before), j \in 1..Len(before) :
            /\ StartsWith(before[i], REGION_START)
            /\ StartsWith(before[j], REGION_END)

\* The text read by call c holds a recognised triple whose title is longer
\* than its top line, the top line taken as the scan sees it.
TitleOverflows(c) ==
  LET before == Split(c.original)
      after  == Split(c.result)
  IN \E i \in 1..Len(before) :
       /\ ScannedTriple(before, after, i)
       /\ Len(Trim(before[i + 1])) > Len(after[i])

\* Call k threw from its scan: it wrote and reported nothing, the file is as
\* it was read, and the run is over.
AbortedInScan(k) ==
  /\ calls[k].outcome = "rangeerror"
  /\ ~calls[k].wrote
  /\ k = Len(calls)
  /\ pc = "crashed"
  /\ io[Len(io)] = Event("read", calls[k].path, TRUE)
  /\ Reports(calls[k].path) = 0
  /\ Writes(calls[k].path) = 0
  /\ \E n \in FileNodes :
       /\ PathOf(n) = calls[k].path
       /\ disk[n] = calls[k].original

\* C25: a region pass that meets a recognised triple whose trimmed title is
\* longer than its top line throws during the scan: it writes and reports
\* nothing, the file stays as it was read, and the run ends there; no
\* region pass throws otherwise.
C25_LongTitleAborts ==
  \A k \in 1..Len(calls) :
    calls[k].fn = "region" /\ ReadOk(calls[k]) =>
      /\ TitleOverflows(calls[k]) => AbortedInScan(k)
      /\ calls[k].outcome = "rangeerror" => TitleOverflows(calls[k])

\* The region pass centred one title in memory, then met a title longer than
\* its top line: the run is over and the next file was not looked at.
C25_Witness ==
  /\ pc = "crashed"
  /\ calls # <<>>
  /\ calls[Len(calls)].outcome = "rangeerror"
  /\ calls[Len(calls)].changed
  /\ calls[Len(calls)].result # calls[Len(calls)].original
  /\ HasExtension(5)
  /\ Untouched(5)

\* The run is over: walk(process.cwd()) returned, or an exception left it.
Terminated == pc \in {"done", "crashed"}

\* How many times pass fn was called for the file at node n.
Dispatched(n, fn) ==
  Cardinality({k \in 1..Len(calls) :
                 calls[k].path = PathOf(n) /\ calls[k].fn = fn})

DispatchedOnce(n) ==
  Dispatched(n, "region") = 1 /\ Dispatched(n, "section") = 1

\* Node n is a regular file named *.ts with no directory named in
\* EXCLUDE_DIRS among the directories of dirs above it.
Eligible(n, dirs) ==
  /\ HasExtension(n)
  /\ \A d \in Ancestors(n) \cap dirs : tree[d].name \notin EXCLUDE_DIRS

\* C23 as stated: the walk terminates, and then every file named *.ts that
\* is not beneath an excluded directory has been given to both passes
\* exactly once.
C23_AllDispatchedOnce ==
  /\ <>Terminated
  /\ [](Terminated => \A n \in FileNodes :
                        Eligible(n, DirNodes) => DispatchedOnce(n))

\* C23 amended: the walk terminates, by returning or by the first uncaught
\* error; no file is given to a pass more than once; and when the walk has
\* returned, every regular file named *.ts with no excluded directory
\* between it and the working directory has been given to both passes
\* exactly once, and every other file to neither.
C23_TerminatesDispatchedOnce ==
  /\ <>Terminated
  /\ [](\A n \in FileNodes :
          /\ Dispatched(n, "region") <= 1
          /\ Dispatched(n, "section") <= Dispatched(n, "region"))
  /\ [](pc = "done" =>
          \A n \in FileNodes :
            IF Eligible(n, DirNodes \ {Root}) THEN DispatchedOnce(n)
            ELSE Dispatched(n, "region") = 0 /\ Dispatched(n, "section") = 0)

\* The walk returned after three files in three directories went through
\* both passes.
C23_Witness ==
  /\ pc = "done"
  /\ \A n \in {2, 5, 6} : DispatchedOnce(n)
  /\ Dispatched(3, "region") = 0

\* The position in the file-system events at which the second run began.
SecondRunAt ==
  CHOOSE k \in 1..Len(io) :
    /\ io[k].op = "readdir" /\ io[k].path = Cwd
    /\ \E j \in 1..(k - 1) : io[j].op = "readdir" /\ io[j].path = Cwd

\* The files written between events from and to.
WritesBetween(from, to) ==
  {k \in from..to : io[k].op = "write" /\ io[k].ok}

\* C24: once a run over the tree has completed, a second run over the same
\* tree writes no file and prints no line: every write and every 'Updated'
\* line belongs to the first run.
C24_SecondRunSilent ==
  RunsStarted = 2 =>
    /\ \A k \in SecondRunAt..Len(io) : io[k].op # "write"
    /\ Len(stdout) = Cardinality(WritesBetween(1, SecondRunAt))

\* A valid user as the documentation of isUser has it: a numeric id, a
\* string name, a role among the values of UserRoles and a valid creation
\* date.
ValidUser(user) ==
  /\ TypeOf(user.props["id"]) = "number"
  /\ TypeOf(user.props["name"]) = "string"
  /\ isValueOf(user.props["role"], UserRoles)
  /\ isValidDateOrISOString(user.props["created"])

\* newUser holds the fields of the partial and the defaults for the others.
DefaultsOverlaid(newUser) ==
  /\ newUser.type = "object"
  /\ DOMAIN newUser.props = FieldNames
  /\ \A f \in FieldNames :
       IF partial.type = "object" /\ In(f, partial)
       THEN newUser.props[f] = partial.props[f]
       ELSE \E now \in Times : newUser.props[f] = GetDefaults(now)[f]

\* C28: a call of getNewUser with no argument or with a partial whose fields
\* are valid returns the defaults overlaid with the partial; it throws 'Not a
\* valid user object' only when the merged object is not a valid user.
C28_NewUserOrThrow ==
  ret # Pending =>
    /\ DefaultsOverlaid(ret.newUser)
    /\ ValidUser(ret.newUser) => ret.kind = "returned"
    /\ ret.kind = "thrown" =>
         ret.message = INVALID_USER_ERROR /\ ~ValidUser(ret.newUser)

=============================================================================
